---- MODULE Spec2Model ----
(***************************************************************************)
(* Model of the invoicing pipeline's allocation-enrichment stage           *)
(* (ColdfrontFetchProcessor) and billability stage                          *)
(* (ValidateBillablePIsProcessor).                                          *)
(*                                                                          *)
(* A DataFrame is a sequence of row records, its index being 0..n-1 (the   *)
(* model's positions 1..n).  A pandas null (None / NaN) is the value NaN.   *)
(* A column that a stage adds is a sequence of its own (is_billable,       *)
(* missing_pi), empty until the stage has run.                              *)
(***************************************************************************)
EXTENDS Integers, Sequences, FiniteSets, TLC

\* ------------------------------------------------------------------ bounds
MaxRows == 3
MaxRules == 3
MaxEntries == 2
MaxProjects == 2
MaxClusters == 2
MaxFiles == 2

\* ------------------------------------------------------- values and strings
NaN == "NaN"
Absent == "<absent>"

isna(x) == x = NaN

\* str.lower() on the strings of the model's universe; a null stays null.
lower(s) ==
  CASE s = "P1" -> "p1"
    [] s = "P2" -> "p2"
    [] s = "P1-name" -> "p1-name"
    [] s = "P2-name" -> "p2-name"
    [] s = "Stack" -> "stack"
    [] OTHER -> s

\* Python's ordering (by code point) of the strings that can be sorted.
str_order == <<"2023-06", "2023-07", "2023-08",
               "P1", "P1-name", "P2", "P2-name", "clusterA", "clusterB",
               "ocp-test", "p1", "p1-name", "p2", "p2-name">>

str_rank(s) == CHOOSE i \in DOMAIN str_order : str_order[i] = s

str_lt(a, b) == str_rank(a) < str_rank(b)

str_le(a, b) == str_rank(a) <= str_rank(b)

Range(f) == {f[i] : i \in DOMAIN f}

isin(x, values) == \E i \in DOMAIN values : values[i] = x

BoundedSeq(S, lo, hi) == UNION {[1..n -> S] : n \in lo..hi}

\* --------------------------------------------------------------- variables
VARIABLES
  data,                  \* the dataset threaded through the stages
  is_billable,           \* column "Is Billable" (<<>> until it is set)
  missing_pi,            \* column "Missing PI" (<<>> until it is set)
  nonbillable_pis,       \* loader.get_nonbillable_pis()
  nonbillable_projects,  \* loader.get_nonbillable_projects(): the rule table
  coldfront_api_data,    \* the directory response
  allocation_data,       \* the stage's (project id, cluster) -> values mapping
  input_data,            \* the dataset as it entered the stage that ran last
  processors,            \* the stages still to run, in order
  completed,             \* the stages that have run to completion, in order
  error,                 \* the exception that ended the run, or NoError
  warnings,              \* project names of the logged "empty PI" warnings
  projects_dict,         \* the parsed rule file (nonbillable_projects_filepath)
  invoice_month,         \* invoice_settings.invoice_month, "YYYY-MM"
  loader_cache,          \* lru_cache of Loader.get_nonbillable_projects
  timed_projects,        \* what get_nonbillable_timed_projects returned
  resolutions,           \* how many times the rule file was resolved
  obtained,              \* the table each constructed stage was given
  runs,                  \* how many times the stages have been started
  first_run,             \* the dataset and the error the first run ended with
  csv_files,             \* the tables read from the input CSV files
  merged_dataframe,      \* what merge_csv returned
  invoices,              \* the invoice views still to process and export
  exported,              \* the views exported to the local filesystem
  uploaded,              \* the views uploaded to S3
  upload_to_s3,          \* invoice_settings.upload_to_s3
  environ,               \* the names of the variables os.environ holds
  coldfront_api_filepath, \* invoice_settings.coldfront_api_filepath
  env_checked,           \* validate_required_env_vars has returned
  requests,              \* the directory reads made: file, Keycloak, API
  settings,              \* the rate-backed values of invoice_settings
  rates,                 \* the values the rate table holds for the month
  returned,              \* what the loader's rate-backed getters returned
  rates_lookups          \* the rate-table names that were looked up

loader_vars == <<projects_dict, invoice_month, loader_cache, timed_projects,
                 resolutions, obtained>>

rerun_vars == <<runs, first_run>>

merge_vars == <<csv_files, merged_dataframe>>

export_vars == <<invoices, exported, uploaded, upload_to_s3>>

env_vars == <<environ, coldfront_api_filepath, env_checked, requests>>

rates_vars == <<settings, rates, returned, rates_lookups>>

vars == <<data, is_billable, missing_pi, nonbillable_pis, nonbillable_projects,
          coldfront_api_data, allocation_data, input_data, processors,
          completed, error, warnings, loader_vars, rerun_vars, merge_vars,
          export_vars, env_vars, rates_vars>>

NoRun == [data |-> <<>>, is_billable |-> <<>>, missing_pi |-> <<>>,
          error |-> [type |-> "none", items |-> <<>>]]

NotMerged == [columns |-> <<>>, index |-> <<>>, rows |-> <<>>]

\* The state of the parts of the program a run does not use.
RerunUnused == runs = 1 /\ first_run = NoRun

MergeUnused == csv_files = <<>> /\ merged_dataframe = NotMerged

\* Python's None as the value of a setting.
None == "<None>"

\* The rate-backed settings and the rate table of a run that reads neither.
NoRates == <<>>

EnvUnused ==
  /\ environ = {}
  /\ coldfront_api_filepath = "coldfront.json"
  /\ env_checked = FALSE
  /\ requests = <<>>

RatesUnused ==
  /\ settings = NoRates
  /\ rates = NoRates
  /\ returned = NoRates
  /\ rates_lookups = {}

ExportUnused ==
  /\ invoices = <<>>
  /\ exported = <<>>
  /\ uploaded = <<>>
  /\ upload_to_s3 = FALSE

NoError == [type |-> "none", items |-> <<>>]

NONBILLABLE_CLUSTERS == <<"ocp-test", "barcelona">>

\* ------------------------------------------------------------ the loader
NotCached == [cached |-> FALSE, value |-> <<>>]

NotReturned == [returned |-> FALSE, value |-> <<>>]

\* The loader's state in the runs whose stages are handed their tables directly.
LoaderUnused ==
  /\ projects_dict = <<>>
  /\ invoice_month = "2023-07"
  /\ loader_cache = NotCached
  /\ timed_projects = NotReturned
  /\ resolutions = 0
  /\ obtained = <<>>

\* A row of the resolved table; Python's None is a null cell.
project_tuple(project_name, cluster_name, is_timed) ==
  [NONBILLABLE_PROJECT_NAME |-> project_name,
   NONBILLABLE_CLUSTER_NAME |-> cluster_name,
   NONBILLABLE_IS_TIMED |-> is_timed]

\* _is_in_time_range with an exclusive end bound.
_is_in_time_range_exclusive_end(timed_object, month) ==
  /\ str_le(timed_object.start, month)
  /\ str_lt(month, timed_object.end)

_is_in_time_range(timed_object, month) ==
  /\ str_le(timed_object.start, month)
  /\ str_le(month, timed_object.end)

\* The inner loop's body that takes every cluster without a range of its own as timed.
cluster_tuples_always_timed(project_name, cluster, month) ==
  IF cluster.start # Absent
    THEN IF _is_in_time_range(cluster, month)
           THEN <<project_tuple(project_name, cluster.name, TRUE)>>
           ELSE <<>>
    ELSE <<project_tuple(project_name, cluster.name, TRUE)>>

\* The body of the loop over the clusters of an entry without a top-level range.
cluster_tuples(project_name, cluster, month) ==
  IF cluster.start # Absent
    THEN IF _is_in_time_range(cluster, month)
           THEN <<project_tuple(project_name, cluster.name, TRUE)>>
           ELSE <<>>
    ELSE <<project_tuple(project_name, cluster.name, FALSE)>>

RECURSIVE cluster_list_tuples(_, _, _, _)
cluster_list_tuples(project_name, cluster_list, month, i) ==
  IF i > Len(cluster_list) THEN <<>>
  ELSE cluster_tuples(project_name, cluster_list[i], month)
       \o cluster_list_tuples(project_name, cluster_list, month, i + 1)

\* The outer loop's body without the "continue" of an entry out of its range.
project_tuples_without_continue(project, month) ==
  IF project.start # Absent
    THEN IF project.clusters # <<>>
           THEN [k \in DOMAIN project.clusters |->
                   project_tuple(project.name, project.clusters[k].name, TRUE)]
           ELSE <<project_tuple(project.name, NaN, TRUE)>>
    ELSE IF project.clusters # <<>>
           THEN cluster_list_tuples(project.name, project.clusters, month, 1)
           ELSE <<project_tuple(project.name, NaN, FALSE)>>

\* The body of the loop over the entries of the rule file: what one entry
\* appends to project_list. An entry without clusters has clusters = <<>>
\* (project.get("clusters") is None or an empty list: both are falsy).
project_tuples(project, month) ==
  IF project.start # Absent
    THEN IF ~_is_in_time_range(project, month)
           THEN <<>>
           ELSE IF project.clusters # <<>>
                  THEN [k \in DOMAIN project.clusters |->
                          project_tuple(project.name, project.clusters[k].name, TRUE)]
                  ELSE <<project_tuple(project.name, NaN, TRUE)>>
    ELSE IF project.clusters # <<>>
           THEN cluster_list_tuples(project.name, project.clusters, month, 1)
           ELSE <<project_tuple(project.name, NaN, FALSE)>>

RECURSIVE get_nonbillable_projects(_, _)
get_nonbillable_projects(file, month) ==
  IF file = <<>> THEN <<>>
  ELSE project_tuples(Head(file), month) \o get_nonbillable_projects(Tail(file), month)

RECURSIVE itertuples(_)
itertuples(frame) ==
  IF frame = <<>> THEN <<>>
  ELSE <<<<Head(frame).NONBILLABLE_PROJECT_NAME, Head(frame).NONBILLABLE_CLUSTER_NAME>>>>
       \o itertuples(Tail(frame))

get_nonbillable_timed_projects(frame) ==
  itertuples(SelectSeq(frame, LAMBDA row : row.NONBILLABLE_IS_TIMED))

\* The first call resolves the file; lru_cache answers the later ones.
Loader_get_nonbillable_projects ==
  /\ ~loader_cache.cached
  /\ loader_cache' = [cached |-> TRUE,
                      value |-> get_nonbillable_projects(projects_dict, invoice_month)]
  /\ resolutions' = resolutions + 1
  /\ UNCHANGED <<projects_dict, invoice_month, timed_projects, obtained>>
  /\ UNCHANGED <<rerun_vars, merge_vars, export_vars, env_vars, rates_vars>>
  /\ UNCHANGED <<data, is_billable, missing_pi, nonbillable_pis, nonbillable_projects,
                 coldfront_api_data, allocation_data, input_data, processors,
                 completed, error, warnings>>

\* The frame built from an empty project_list has object-dtype columns, and
\* pandas does not take an empty object-dtype Series for a boolean mask
\* (is_bool_indexer is false for it): frame[mask] then selects the columns
\* the mask lists, that is none, and the selection of "Project Name" and
\* "Cluster" out of the column-less result raises KeyError.
mask_is_column_list(frame) == frame = <<>>

KeyError(key) == [type |-> "KeyError", items |-> key]

Loader_get_nonbillable_timed_projects ==
  /\ ~timed_projects.returned
  /\ error = NoError
  /\ LET table == IF loader_cache.cached
                    THEN loader_cache.value
                    ELSE get_nonbillable_projects(projects_dict, invoice_month)
     IN /\ loader_cache' = [cached |-> TRUE, value |-> table]
        /\ resolutions' = IF loader_cache.cached THEN resolutions ELSE resolutions + 1
        /\ IF mask_is_column_list(table)
             THEN /\ error' = KeyError(<<"Project Name", "Cluster">>)
                  /\ UNCHANGED timed_projects
             ELSE /\ timed_projects' = [returned |-> TRUE,
                                        value |-> get_nonbillable_timed_projects(table)]
                  /\ UNCHANGED error
  /\ UNCHANGED <<projects_dict, invoice_month, obtained>>
  /\ UNCHANGED <<rerun_vars, merge_vars, export_vars, env_vars, rates_vars>>
  /\ UNCHANGED <<data, is_billable, missing_pi, nonbillable_pis, nonbillable_projects,
                 coldfront_api_data, allocation_data, input_data, processors,
                 completed, warnings>>

\* ------------------------------------------------ find_billable_projects
_apply_lowercase(frame, col) ==
  [i \in DOMAIN frame |-> [frame[i] EXCEPT ![col] = lower(@)]]

\* _apply_lowercase writing the lowered column into the frame it was given.
_apply_lowercase_data_in_place(frame, col) == _apply_lowercase(frame, col)

\* The frame the caller passed, after the call: the column is lowered on
\* data.copy(), so the caller's frame is as it was.
_apply_lowercase_data(frame, col) == frame

\* The lru_cache entry after find_billable_projects was given the table: the
\* cached DataFrame is the object the stages hold.
lru_cache_after_find_billable_projects(cache) ==
  IF cache.cached
    THEN [cache EXCEPT !.value = _apply_lowercase_data(@, "NONBILLABLE_PROJECT_NAME")]
    ELSE cache

cluster_agnostic_projects(nonbillable_projects_lower) ==
  {nonbillable_projects_lower[i].NONBILLABLE_PROJECT_NAME :
     i \in {j \in DOMAIN nonbillable_projects_lower :
              isna(nonbillable_projects_lower[j].NONBILLABLE_CLUSTER_NAME)}}

\* The rows of the right table whose join key equals the left row's key.
merge_matches(l, right) ==
  SelectSeq(right, LAMBDA r :
      /\ r.NONBILLABLE_PROJECT_NAME = l.PROJECT_FIELD
      /\ r.NONBILLABLE_CLUSTER_NAME = l.CLUSTER_NAME_FIELD)

\* The rows a left join emits for one left row: one per matching right row
\* ("both"), or the left row alone ("left_only").
merge_row(l, right) ==
  LET m == merge_matches(l, right)
  IN IF m = <<>>
       THEN << [PROJECT_FIELD |-> l.PROJECT_FIELD,
                CLUSTER_NAME_FIELD |-> l.CLUSTER_NAME_FIELD,
                source |-> "left_only"] >>
       ELSE [j \in DOMAIN m |->
               [PROJECT_FIELD |-> l.PROJECT_FIELD,
                CLUSTER_NAME_FIELD |-> l.CLUSTER_NAME_FIELD,
                source |-> "both"]]

RECURSIVE pandas_merge(_, _)
pandas_merge(left, right) ==
  IF left = <<>> THEN <<>>
  ELSE merge_row(Head(left), right) \o pandas_merge(Tail(left), right)

\* The boolean series the function returns; its index is the merged table's.
find_billable_projects(frame, rules) ==
  LET data_lower == _apply_lowercase(frame, "PROJECT_FIELD")
      nonbillable_projects_lower == _apply_lowercase(rules, "NONBILLABLE_PROJECT_NAME")
      agnostic == cluster_agnostic_projects(nonbillable_projects_lower)
      merged_data == pandas_merge(data_lower, nonbillable_projects_lower)
  IN [k \in DOMAIN merged_data |->
        /\ merged_data[k].PROJECT_FIELD \notin agnostic
        /\ merged_data[k].source # "both"
        /\ ~isin(merged_data[k].CLUSTER_NAME_FIELD, NONBILLABLE_CLUSTERS)]

\* The series taken as it is, whatever labels the dataset has.
reindex_not_aligned(series, frame) == series

\* A series read or assigned against the dataset's index keeps the labels the
\* dataset has; a label the series lacks reads as False.
reindex(series, frame) ==
  [i \in DOMAIN frame |-> IF i \in DOMAIN series THEN series[i] ELSE FALSE]

\* ------------------------------------------ ValidateBillablePIsProcessor
\* _get_billables with the PI mask left out of the conjunction.
_get_billables_without_pi_mask(frame, pis, rules) ==
  find_billable_projects(frame, rules)

_get_billables(frame, pis, rules) ==
  LET pi_mask == [i \in DOMAIN frame |-> ~isin(frame[i].PI_FIELD, pis)]
      project_mask == find_billable_projects(frame, rules)
      n == IF Len(pi_mask) > Len(project_mask) THEN Len(pi_mask) ELSE Len(project_mask)
  IN [i \in 1..n |->
        /\ (i \in DOMAIN pi_mask /\ pi_mask[i])
        /\ (i \in DOMAIN project_mask /\ project_mask[i])]

_validate_pi_names(frame) ==
  [i \in DOMAIN frame |-> isna(frame[i].PI_FIELD)]

\* The loop of _validate_pi_names without its test of the "Is Billable" value.
RECURSIVE _validate_pi_names_warnings_any_row(_, _, _)
_validate_pi_names_warnings_any_row(frame, billable, i) ==
  IF i > Len(frame) THEN <<>>
  ELSE (IF isna(frame[i].PI_FIELD) THEN <<frame[i].PROJECT_FIELD>> ELSE <<>>)
       \o _validate_pi_names_warnings_any_row(frame, billable, i + 1)

\* The warnings _validate_pi_names logs, in row order.
RECURSIVE _validate_pi_names_warnings(_, _, _)
_validate_pi_names_warnings(frame, billable, i) ==
  IF i > Len(frame) THEN <<>>
  ELSE (IF isna(frame[i].PI_FIELD) /\ billable[i]
          THEN <<frame[i].PROJECT_FIELD>> ELSE <<>>)
       \o _validate_pi_names_warnings(frame, billable, i + 1)

ValidateBillablePIs_process ==
  /\ error = NoError
  /\ processors # <<>>
  /\ Head(processors) = "ValidateBillablePIsProcessor"
  /\ LET billable == reindex(_get_billables(data, nonbillable_pis, nonbillable_projects), data)
     IN /\ is_billable' = billable
        /\ missing_pi' = _validate_pi_names(data)
        /\ warnings' = warnings \o _validate_pi_names_warnings(data, billable, 1)
  /\ data' = _apply_lowercase_data(data, "PROJECT_FIELD")
  /\ nonbillable_projects' =
       _apply_lowercase_data(nonbillable_projects, "NONBILLABLE_PROJECT_NAME")
  /\ loader_cache' = lru_cache_after_find_billable_projects(loader_cache)
  /\ input_data' = data
  /\ processors' = Tail(processors)
  /\ completed' = Append(completed, Head(processors))
  /\ UNCHANGED <<projects_dict, invoice_month, timed_projects, resolutions, obtained>>
  /\ UNCHANGED <<rerun_vars, merge_vars, export_vars, env_vars, rates_vars>>
  /\ UNCHANGED <<nonbillable_pis, coldfront_api_data, allocation_data, error>>

\* ------------------------------------------------ ColdfrontFetchProcessor
\* ValidateClusterNameProcessor.CLUSTER_NAME_MAP.get(name, name)
CLUSTER_NAME_MAP_get(name) ==
  CASE name = "clusterA-alias" -> "clusterA"
    [] OTHER -> name

\* allocation_data[key] = value on a dict kept in insertion order: a key the
\* dict has keeps its place and takes the new value.
dict_set(d, key, value) ==
  IF \E i \in DOMAIN d : d[i].key = key
    THEN [i \in DOMAIN d |-> IF d[i].key = key THEN [key |-> key, value |-> value] ELSE d[i]]
    ELSE Append(d, [key |-> key, value |-> value])

\* The KeyError branch taken also for an entry without institution code.
raises_KeyError_code_required(project_dict) ==
  \/ project_dict.CF_ATTR_ALLOCATED_PROJECT_ID = Absent
  \/ project_dict.CF_ATTR_ALLOCATED_PROJECT_NAME = Absent
  \/ project_dict.pi = Absent
  \/ project_dict.resource_name = Absent
  \/ project_dict.CF_ATTR_INSTITUTION_SPECIFIC_CODE = Absent

\* An entry lacks a key the loop body subscripts: the KeyError branch.
raises_KeyError(project_dict) ==
  \/ project_dict.CF_ATTR_ALLOCATED_PROJECT_ID = Absent
  \/ project_dict.CF_ATTR_ALLOCATED_PROJECT_NAME = Absent
  \/ project_dict.pi = Absent
  \/ project_dict.resource_name = Absent

RECURSIVE _get_allocation_data_from(_, _)
_get_allocation_data_from(api_data, acc) ==
  IF api_data = <<>> THEN acc
  ELSE LET project_dict == Head(api_data)
           institute_code ==
             IF project_dict.CF_ATTR_INSTITUTION_SPECIFIC_CODE = Absent
               THEN "N/A" ELSE project_dict.CF_ATTR_INSTITUTION_SPECIFIC_CODE
           cluster_name == CLUSTER_NAME_MAP_get(project_dict.resource_name)
       IN IF raises_KeyError(project_dict)
            THEN _get_allocation_data_from(Tail(api_data), acc)
            ELSE _get_allocation_data_from(Tail(api_data),
                   dict_set(acc,
                            <<project_dict.CF_ATTR_ALLOCATED_PROJECT_ID, cluster_name>>,
                            [PROJECT_FIELD |-> project_dict.CF_ATTR_ALLOCATED_PROJECT_NAME,
                             PI_FIELD |-> project_dict.pi,
                             INSTITUTION_ID_FIELD |-> institute_code]))

_get_allocation_data(api_data) == _get_allocation_data_from(api_data, <<>>)

\* The loop body with a mask that compares the project id only.
apply_item_any_cluster(frame, item) ==
  [i \in DOMAIN frame |->
     IF frame[i].PROJECT_ID_FIELD = item.key[1]
       THEN [frame[i] EXCEPT !.PROJECT_FIELD = item.value.PROJECT_FIELD,
                             !.PI_FIELD = item.value.PI_FIELD,
                             !.INSTITUTION_ID_FIELD = item.value.INSTITUTION_ID_FIELD]
       ELSE frame[i]]

\* One iteration of the loop of _apply_allocation_data: the masked assignments.
apply_item(frame, item) ==
  [i \in DOMAIN frame |->
     IF /\ frame[i].PROJECT_ID_FIELD = item.key[1]
        /\ frame[i].CLUSTER_NAME_FIELD = item.key[2]
       THEN [frame[i] EXCEPT !.PROJECT_FIELD = item.value.PROJECT_FIELD,
                             !.PI_FIELD = item.value.PI_FIELD,
                             !.INSTITUTION_ID_FIELD = item.value.INSTITUTION_ID_FIELD]
       ELSE frame[i]]

\* The loop with the PI assigned from the row's own project name, read
\* before the name is overwritten.
RECURSIVE _apply_allocation_data_pi_from_row(_, _)
_apply_allocation_data_pi_from_row(frame, alloc) ==
  IF alloc = <<>> THEN frame
  ELSE _apply_allocation_data_pi_from_row(
         [i \in DOMAIN frame |->
            IF /\ frame[i].PROJECT_ID_FIELD = Head(alloc).key[1]
               /\ frame[i].CLUSTER_NAME_FIELD = Head(alloc).key[2]
              THEN [frame[i] EXCEPT !.PI_FIELD = frame[i].PROJECT_FIELD,
                                    !.PROJECT_FIELD = Head(alloc).value.PROJECT_FIELD,
                                    !.INSTITUTION_ID_FIELD =
                                       Head(alloc).value.INSTITUTION_ID_FIELD]
              ELSE frame[i]],
         Tail(alloc))

RECURSIVE _apply_allocation_data(_, _)
_apply_allocation_data(frame, alloc) ==
  IF alloc = <<>> THEN frame
  ELSE _apply_allocation_data(apply_item(frame, Head(alloc)), Tail(alloc))

\* The distinct project names of the rows the project mask selects.
_get_project_name_list(frame, rules) ==
  LET project_mask == reindex(find_billable_projects(frame, rules), frame)
  IN {frame[i].PROJECT_FIELD : i \in {j \in DOMAIN frame : project_mask[j]}}

\* list(set) followed by list.sort()
RECURSIVE list_sort(_)
list_sort(S) ==
  IF S = {} THEN <<>>
  ELSE LET m == CHOOSE x \in S : \A y \in S : x = y \/ str_lt(x, y)
       IN <<m>> \o list_sort(S \ {m})

\* The sorted list _validate_allocation_data raises on when it is not empty.
_validate_allocation_data(frame, alloc, rules) ==
  LET allocation_project_names == {alloc[i].value.PROJECT_FIELD : i \in DOMAIN alloc}
      missing_projects == _get_project_name_list(frame, rules) \ allocation_project_names
  IN list_sort(missing_projects)

\* The items of the list formatted into the ValueError message: a string
\* item is one component.
ValueError(missing_projects) ==
  [type |-> "ValueError",
   items |-> [i \in DOMAIN missing_projects |-> <<missing_projects[i]>>]]

\* A setting that is None or an empty string is false in a condition.
filepath_is_set(filepath) == filepath # None /\ filepath # ""

KEYCLOAK_VARS == <<"KEYCLOAK_CLIENT_ID", "KEYCLOAK_CLIENT_SECRET">>

SystemExit(message) == [type |-> "SystemExit", items |-> <<message>>]

\* How _get_coldfront_api_data can end: the configured file is read; or the
\* client is built (os.environ is subscripted, then the token is requested,
\* which Keycloak can refuse) and the allocations are fetched.
_get_coldfront_api_data_outcomes(filepath, env) ==
  IF filepath_is_set(filepath) THEN {"file"}
  ELSE IF \E k \in DOMAIN KEYCLOAK_VARS : KEYCLOAK_VARS[k] \notin env THEN {"KeyError"}
  ELSE {"authentication failed", "api"}

_get_coldfront_api_data_requests(outcome) ==
  CASE outcome = "file" -> <<"open coldfront_data_filepath">>
    [] outcome = "KeyError" -> <<>>
    [] outcome = "authentication failed" -> <<"POST keycloak token">>
    [] outcome = "api" -> <<"POST keycloak token", "GET coldfront allocations">>

ColdfrontFetch_process ==
  /\ error = NoError
  /\ processors # <<>>
  /\ Head(processors) = "ColdfrontFetchProcessor"
  /\ \E outcome \in _get_coldfront_api_data_outcomes(coldfront_api_filepath, environ) :
       /\ requests' = requests \o _get_coldfront_api_data_requests(outcome)
       /\ IF outcome \in {"KeyError", "authentication failed"}
            THEN /\ error' = IF outcome = "KeyError"
                               THEN KeyError(<<Head(SelectSeq(KEYCLOAK_VARS,
                                                              LAMBDA v : v \notin environ))>>)
                               ELSE SystemExit("Keycloak authentication failed")
                 /\ UNCHANGED <<allocation_data, data, processors, completed,
                                nonbillable_projects, loader_cache>>
            ELSE LET alloc == _get_allocation_data(coldfront_api_data)
                     applied == _apply_allocation_data(data, alloc)
                     missing_projects ==
                       _validate_allocation_data(applied, alloc, nonbillable_projects)
                 IN /\ allocation_data' = alloc
                    /\ data' = _apply_lowercase_data(applied, "PROJECT_FIELD")
                    /\ nonbillable_projects' =
                         _apply_lowercase_data(nonbillable_projects,
                                               "NONBILLABLE_PROJECT_NAME")
                    /\ loader_cache' = lru_cache_after_find_billable_projects(loader_cache)
                    /\ IF missing_projects # <<>>
                         THEN /\ error' = ValueError(missing_projects)
                              /\ UNCHANGED <<processors, completed>>
                         ELSE /\ processors' = Tail(processors)
                              /\ completed' = Append(completed, Head(processors))
                              /\ UNCHANGED error
  /\ input_data' = data
  /\ UNCHANGED <<projects_dict, invoice_month, timed_projects, resolutions, obtained>>
  /\ UNCHANGED <<rerun_vars, merge_vars, export_vars, rates_vars>>
  /\ UNCHANGED <<environ, coldfront_api_filepath, env_checked>>
  /\ UNCHANGED <<is_billable, missing_pi, nonbillable_pis, coldfront_api_data, warnings>>

\* ------------------------------------------------- the stages' rule table
\* A stage is constructed without a rule table: the dataclass field's
\* default_factory calls loader.get_nonbillable_projects, which resolves the
\* rule file on the first call and returns the cached table afterwards.
Processor_default_factory ==
  /\ error = NoError
  /\ processors # <<>>
  /\ Head(processors) \in {"ColdfrontFetchProcessor", "ValidateBillablePIsProcessor"}
  /\ Len(obtained) = Len(completed)
  /\ LET table == IF loader_cache.cached
                    THEN loader_cache.value
                    ELSE get_nonbillable_projects(projects_dict, invoice_month)
     IN /\ loader_cache' = [cached |-> TRUE, value |-> table]
        /\ resolutions' = IF loader_cache.cached THEN resolutions ELSE resolutions + 1
        /\ nonbillable_projects' = table
        /\ obtained' = Append(obtained, [stage |-> Head(processors), value |-> table])
  /\ UNCHANGED <<projects_dict, invoice_month, timed_projects>>
  /\ UNCHANGED <<rerun_vars, merge_vars, export_vars, env_vars, rates_vars>>
  /\ UNCHANGED <<data, is_billable, missing_pi, nonbillable_pis, coldfront_api_data,
                 allocation_data, input_data, processors, completed, error, warnings>>

\* The stage at the head of the list has been constructed with its table.
constructed == Len(obtained) = Len(completed) + 1

constructed_ColdfrontFetch_process == constructed /\ ColdfrontFetch_process

constructed_ValidateBillablePIs_process == constructed /\ ValidateBillablePIs_process

\* --------------------------------------------------------- env variables
\* The variables main requires, given the coldfront file setting.
required_env_vars_always(filepath) == KEYCLOAK_VARS

required_env_vars(filepath) ==
  IF ~filepath_is_set(filepath) THEN KEYCLOAK_VARS ELSE <<>>

\* The variables of the list that os.environ lacks, in list order.
validate_required_env_vars(required, env) ==
  SelectSeq(required, LAMBDA v : v \notin env)

\* The start of main: sys.exit on the first required variable that is absent.
main_validate_required_env_vars ==
  /\ ~env_checked
  /\ error = NoError
  /\ LET absent == validate_required_env_vars(required_env_vars(coldfront_api_filepath),
                                              environ)
     IN IF absent # <<>>
          THEN /\ error' = SystemExit(Head(absent))
               /\ UNCHANGED env_checked
          ELSE /\ env_checked' = TRUE
               /\ UNCHANGED error
  /\ UNCHANGED <<environ, coldfront_api_filepath, requests>>
  /\ UNCHANGED <<data, is_billable, missing_pi, nonbillable_pis, nonbillable_projects,
                 coldfront_api_data, allocation_data, input_data, processors,
                 completed, warnings>>
  /\ UNCHANGED <<loader_vars, rerun_vars, merge_vars, export_vars, rates_vars>>

\* The enrichment stage as main runs it: after the variables were validated.
main_ColdfrontFetch_process == env_checked /\ ColdfrontFetch_process

\* ------------------------------------------------ rate-backed settings
\* An optional setting is <<>> for None and <<v>> for the value v; a dict is
\* the sequence of its <<key, value>> items; what a getter has not returned
\* yet is <<>> too.
NoValue == <<>>

Value(v) == <<v>>

\* Python's truth value of an optional Decimal, bool and dict.
bool_Decimal(x) == x # NoValue /\ x[1] # 0

bool_bool(x) == x # NoValue /\ x[1]

bool_dict(x) == x # NoValue /\ x[1] # <<>>

\* get_rates_info().get_value_at(name, invoice_month, type): the table's value
\* for the name at the invoice month.
get_value_at(table, name) == table[name]

LENOVO_SU_NAMES == <<"GPUA100SXM4", "GPUH100">>

Lenovo_Charge(su_name) ==
  CASE su_name = "GPUA100SXM4" -> "Lenovo GPUA100SXM4 Charge"
    [] su_name = "GPUH100" -> "Lenovo GPUH100 Charge"

Loader_get_new_pi_credit_amount ==
  /\ returned.new_pi_credit_amount = NoValue
  /\ IF bool_Decimal(settings.new_pi_credit_amount)
       THEN /\ returned' = [returned EXCEPT !.new_pi_credit_amount =
                                              settings.new_pi_credit_amount]
            /\ UNCHANGED rates_lookups
       ELSE /\ returned' = [returned EXCEPT !.new_pi_credit_amount =
                                              Value(get_value_at(rates, "New PI Credit"))]
            /\ rates_lookups' = rates_lookups \cup {"New PI Credit"}
  /\ UNCHANGED <<settings, rates>>
  /\ UNCHANGED <<loader_vars, rerun_vars, merge_vars, export_vars, env_vars>>
  /\ UNCHANGED <<data, is_billable, missing_pi, nonbillable_pis, nonbillable_projects,
                 coldfront_api_data, allocation_data, input_data, processors,
                 completed, error, warnings>>

Loader_get_limit_new_pi_credit_to_partners ==
  /\ returned.limit_new_pi_credit_to_partners = NoValue
  /\ IF bool_bool(settings.limit_new_pi_credit_to_partners)
       THEN /\ returned' = [returned EXCEPT !.limit_new_pi_credit_to_partners =
                                              settings.limit_new_pi_credit_to_partners]
            /\ UNCHANGED rates_lookups
       ELSE /\ returned' =
                 [returned EXCEPT !.limit_new_pi_credit_to_partners =
                    Value(get_value_at(rates, "Limit New PI Credit to MGHPCC Partners"))]
            /\ rates_lookups' =
                 rates_lookups \cup {"Limit New PI Credit to MGHPCC Partners"}
  /\ UNCHANGED <<settings, rates>>
  /\ UNCHANGED <<loader_vars, rerun_vars, merge_vars, export_vars, env_vars>>
  /\ UNCHANGED <<data, is_billable, missing_pi, nonbillable_pis, nonbillable_projects,
                 coldfront_api_data, allocation_data, input_data, processors,
                 completed, error, warnings>>

Loader_get_bu_subsidy_amount ==
  /\ returned.bu_subsidy_amount = NoValue
  /\ IF bool_Decimal(settings.bu_subsidy_amount)
       THEN /\ returned' = [returned EXCEPT !.bu_subsidy_amount =
                                              settings.bu_subsidy_amount]
            /\ UNCHANGED rates_lookups
       ELSE /\ returned' = [returned EXCEPT !.bu_subsidy_amount =
                                              Value(get_value_at(rates, "BU Subsidy"))]
            /\ rates_lookups' = rates_lookups \cup {"BU Subsidy"}
  /\ UNCHANGED <<settings, rates>>
  /\ UNCHANGED <<loader_vars, rerun_vars, merge_vars, export_vars, env_vars>>
  /\ UNCHANGED <<data, is_billable, missing_pi, nonbillable_pis, nonbillable_projects,
                 coldfront_api_data, allocation_data, input_data, processors,
                 completed, error, warnings>>

Loader_get_lenovo_su_charge_info ==
  /\ returned.lenovo_charge_info = NoValue
  /\ IF bool_dict(settings.lenovo_charge_info)
       THEN /\ returned' = [returned EXCEPT !.lenovo_charge_info =
                                              settings.lenovo_charge_info]
            /\ UNCHANGED rates_lookups
       ELSE /\ returned' =
                 [returned EXCEPT !.lenovo_charge_info =
                    Value([k \in DOMAIN LENOVO_SU_NAMES |->
                             <<LENOVO_SU_NAMES[k],
                               get_value_at(rates, Lenovo_Charge(LENOVO_SU_NAMES[k]))>>])]
            /\ rates_lookups' =
                 rates_lookups \cup {Lenovo_Charge(LENOVO_SU_NAMES[k]) :
                                       k \in DOMAIN LENOVO_SU_NAMES}
  /\ UNCHANGED <<settings, rates>>
  /\ UNCHANGED <<loader_vars, rerun_vars, merge_vars, export_vars, env_vars>>
  /\ UNCHANGED <<data, is_billable, missing_pi, nonbillable_pis, nonbillable_projects,
                 coldfront_api_data, allocation_data, input_data, processors,
                 completed, error, warnings>>

\* ------------------------------------------------------------- merge_csv
\* A table is [columns, index, rows]; read_csv gives it the index 0..n-1.
RangeIndex(n) == [i \in 1..n |-> i - 1]

\* str() of the rates of the model's universe.
str(n) ==
  CASE n = 25 -> "25"
    [] n = 30 -> "30"
    [] OTHER -> "0"

\* An integer cost as a decimal128(21, 2) value.
decimal128_21_2(n) == [unscaled |-> n * 100, scale |-> 2]

astype(dataframe) ==
  [dataframe EXCEPT !.rows =
     [i \in DOMAIN dataframe.rows |->
        [dataframe.rows[i] EXCEPT !.Cost = decimal128_21_2(@), !.Rate = str(@)]]]

\* The columns of the frames in the order of their first appearance.
RECURSIVE union_columns(_, _)
union_columns(dataframes, seen) ==
  IF dataframes = <<>> THEN seen
  ELSE union_columns(Tail(dataframes),
                     seen \o SelectSeq(Head(dataframes).columns,
                                       LAMBDA c : ~isin(c, seen)))

RECURSIVE concat_rows(_)
concat_rows(dataframes) ==
  IF dataframes = <<>> THEN <<>>
  ELSE Head(dataframes).rows \o concat_rows(Tail(dataframes))

RECURSIVE concat_index(_)
concat_index(dataframes) ==
  IF dataframes = <<>> THEN <<>>
  ELSE Head(dataframes).index \o concat_index(Tail(dataframes))

RECURSIVE drop_duplicates(_, _)
drop_duplicates(rows, seen) ==
  IF rows = <<>> THEN seen
  ELSE drop_duplicates(Tail(rows),
                       IF isin(Head(rows), seen) THEN seen ELSE Append(seen, Head(rows)))

\* A concatenation that keeps one copy of the rows that are equal.
concat_drop_duplicates(dataframes, ignore_index) ==
  LET rows == drop_duplicates(concat_rows(dataframes), <<>>)
  IN [columns |-> union_columns(dataframes, <<>>),
      index |-> RangeIndex(Len(rows)),
      rows |-> rows]

\* pandas.concat along the rows of frames that have the same columns.
concat(dataframes, ignore_index) ==
  [columns |-> union_columns(dataframes, <<>>),
   index |-> IF ignore_index THEN RangeIndex(Len(concat_rows(dataframes)))
                             ELSE concat_index(dataframes),
   rows |-> concat_rows(dataframes)]

reset_index(dataframe) == [dataframe EXCEPT !.index = RangeIndex(Len(dataframe.rows))]

merge_csv(files) ==
  reset_index(concat([k \in DOMAIN files |-> astype(files[k])], TRUE))

main_merge_csv ==
  /\ merged_dataframe = NotMerged
  /\ csv_files # <<>>
  /\ merged_dataframe' = merge_csv(csv_files)
  /\ UNCHANGED csv_files
  /\ UNCHANGED <<data, is_billable, missing_pi, nonbillable_pis, nonbillable_projects,
                 coldfront_api_data, allocation_data, input_data, processors,
                 completed, error, warnings>>
  /\ UNCHANGED <<loader_vars, rerun_vars, export_vars, env_vars, rates_vars>>

\* main hands the merged dataframe to the stage loop, here with the
\* billability stage as the stage to run.
main_process_merged_dataframe ==
  /\ merged_dataframe # NotMerged
  /\ processors = <<>>
  /\ completed = <<>>
  /\ error = NoError
  /\ data = <<>>
  /\ data' = merged_dataframe.rows
  /\ input_data' = merged_dataframe.rows
  /\ processors' = <<"ValidateBillablePIsProcessor">>
  /\ UNCHANGED <<is_billable, missing_pi, nonbillable_pis, nonbillable_projects,
                 coldfront_api_data, allocation_data, completed, error, warnings>>
  /\ UNCHANGED <<loader_vars, rerun_vars, merge_vars, export_vars, env_vars, rates_vars>>

\* ------------------------------------------------------------------ main
\* The processors main hands to process_merged_dataframe, billability
\* validation moved before the enrichment.
PRELIMINARY_PROCESSORS_validation_first ==
  <<"ValidateClusterNameProcessor", "ValidateBillablePIsProcessor",
    "ValidatePIAliasProcessor", "AddInstitutionProcessor", "LenovoProcessor",
    "ColdfrontFetchProcessor", "NewPICreditProcessor", "BUSubsidyProcessor",
    "PrepaymentProcessor">>

\* The processors main hands to process_merged_dataframe, in its order.
PRELIMINARY_PROCESSORS ==
  <<"ValidateClusterNameProcessor", "ColdfrontFetchProcessor",
    "ValidatePIAliasProcessor", "AddInstitutionProcessor", "LenovoProcessor",
    "ValidateBillablePIsProcessor", "NewPICreditProcessor", "BUSubsidyProcessor",
    "PrepaymentProcessor">>

\* The invoices main hands to process_and_export_invoices, in its order.
INVOICE_LIST ==
  <<"LenovoInvoice", "NonbillableInvoice", "BillableInvoice", "NERCTotalInvoice",
    "BUInternalInvoice", "PIInvoice", "MOCAPrepaidInvoice", "PrepayCreditsSnapshot",
    "OcpTestInvoice">>

\* The stages whose code is modelled by what the specification says of them:
\* each either completes or raises; their columns are not part of the model.
OtherProcessors ==
  {"ValidateClusterNameProcessor", "ValidatePIAliasProcessor",
   "AddInstitutionProcessor", "LenovoProcessor", "NewPICreditProcessor",
   "BUSubsidyProcessor", "PrepaymentProcessor"}

ProcessorOutcomes == {"returns", "raises"}

\* What the calls on an invoice view can do: process(), export() and
\* export_s3() each return or raise.
InvoiceOutcomes == {"process raises", "export raises", "export_s3 raises", "returns"}

Exception(raised_by) == [type |-> "Exception", items |-> <<raised_by>>]

\* One iteration of the loop of process_merged_dataframe for such a stage.
OtherProcessor_process ==
  /\ error = NoError
  /\ processors # <<>>
  /\ Head(processors) \in OtherProcessors
  /\ \E outcome \in ProcessorOutcomes :
       IF outcome = "raises"
         THEN /\ error' = Exception(Head(processors))
              /\ UNCHANGED <<processors, completed>>
         ELSE /\ processors' = Tail(processors)
              /\ completed' = Append(completed, Head(processors))
              /\ UNCHANGED error
  /\ input_data' = data
  /\ UNCHANGED <<data, is_billable, missing_pi, nonbillable_pis, nonbillable_projects,
                 coldfront_api_data, allocation_data, warnings>>
  /\ UNCHANGED <<loader_vars, rerun_vars, merge_vars, export_vars, env_vars, rates_vars>>

\* One iteration of the loop of process_and_export_invoices; the loop starts
\* when process_merged_dataframe has returned.
Invoice_process_and_export ==
  /\ error = NoError
  /\ processors = <<>>
  /\ invoices # <<>>
  /\ \E outcome \in InvoiceOutcomes :
       CASE outcome \in {"process raises", "export raises"} ->
              /\ error' = Exception(Head(invoices))
              /\ UNCHANGED <<invoices, exported, uploaded>>
         [] outcome = "export_s3 raises" ->
              /\ upload_to_s3
              /\ exported' = Append(exported, Head(invoices))
              /\ error' = Exception(Head(invoices))
              /\ UNCHANGED <<invoices, uploaded>>
         [] outcome = "returns" ->
              /\ exported' = Append(exported, Head(invoices))
              /\ uploaded' = IF upload_to_s3 THEN Append(uploaded, Head(invoices))
                                             ELSE uploaded
              /\ invoices' = Tail(invoices)
              /\ UNCHANGED error
  /\ UNCHANGED upload_to_s3
  /\ UNCHANGED <<data, is_billable, missing_pi, nonbillable_pis, nonbillable_projects,
                 coldfront_api_data, allocation_data, input_data, processors,
                 completed, warnings>>
  /\ UNCHANGED <<loader_vars, rerun_vars, merge_vars, env_vars, rates_vars>>

\* ------------------------------------------------- a second application
RunEnded == processors = <<>> \/ error # NoError

\* The two stages are constructed again on the dataset the first run left
\* behind, with the same directory response, PI list and rule table.
Rerun ==
  /\ runs = 1
  /\ RunEnded
  /\ runs' = 2
  /\ first_run' = [data |-> data, is_billable |-> is_billable,
                   missing_pi |-> missing_pi, error |-> error]
  /\ processors' = <<"ColdfrontFetchProcessor", "ValidateBillablePIsProcessor">>
  /\ completed' = <<>>
  /\ error' = NoError
  /\ allocation_data' = <<>>
  /\ input_data' = data
  /\ UNCHANGED <<data, is_billable, missing_pi, nonbillable_pis, nonbillable_projects,
                 coldfront_api_data, warnings>>
  /\ UNCHANGED <<loader_vars, merge_vars, export_vars, env_vars, rates_vars>>

\* ------------------------------------------------------ bounded inputs
Row(id, name, pi, cluster, code) ==
  [PROJECT_ID_FIELD |-> id, PROJECT_FIELD |-> name, PI_FIELD |-> pi,
   CLUSTER_NAME_FIELD |-> cluster, INSTITUTION_ID_FIELD |-> code]

Rule(name, cluster) ==
  [NONBILLABLE_PROJECT_NAME |-> name, NONBILLABLE_CLUSTER_NAME |-> cluster,
   NONBILLABLE_IS_TIMED |-> FALSE]

\* Rows and rules of the billability checks.
BillableRows ==
  {Row(p, p, pi, c, "") : p \in {"P1", "P2"}, pi \in {"PI1", "PI2"},
                          c \in {"stack", "bm", "ocp-test", "barcelona"}}

BillableRules ==
  {Rule("p1", NaN), Rule("P1", "stack"), Rule("p1", "stack"), Rule("p1", "Stack")}

InitValidate ==
  /\ data \in BoundedSeq(BillableRows, 1, MaxRows)
  /\ nonbillable_projects \in BoundedSeq(BillableRules, 0, MaxRules)
  /\ nonbillable_pis = <<"PI1">>
  /\ coldfront_api_data = <<>>
  /\ allocation_data = <<>>
  /\ is_billable = <<>>
  /\ missing_pi = <<>>
  /\ input_data = data
  /\ processors = <<"ValidateBillablePIsProcessor">>
  /\ completed = <<>>
  /\ error = NoError
  /\ warnings = <<>>
  /\ LoaderUnused
  /\ RerunUnused
  /\ EnvUnused
  /\ RatesUnused
  /\ MergeUnused
  /\ ExportUnused

NextValidate == ValidateBillablePIs_process

SpecValidate == InitValidate /\ [][NextValidate]_vars

\* Rows and rules of the PI checks: a nonbillable PI, a blank PI, a null PI.
PIRows ==
  {Row(p, p, pi, c, "") : p \in {"P1", "P2"}, pi \in {"PI1", "", NaN},
                          c \in {"stack", "ocp-test"}}

PIRules == {Rule("P1", "stack"), Rule("p1", "stack")}

InitPI ==
  /\ data \in BoundedSeq(PIRows, 1, MaxRows)
  /\ nonbillable_projects \in BoundedSeq(PIRules, 0, MaxRules)
  /\ nonbillable_pis = <<"PI1">>
  /\ coldfront_api_data = <<>>
  /\ allocation_data = <<>>
  /\ is_billable = <<>>
  /\ missing_pi = <<>>
  /\ input_data = data
  /\ processors = <<"ValidateBillablePIsProcessor">>
  /\ completed = <<>>
  /\ error = NoError
  /\ warnings = <<>>
  /\ LoaderUnused
  /\ RerunUnused
  /\ EnvUnused
  /\ RatesUnused
  /\ MergeUnused
  /\ ExportUnused

SpecPI == InitPI /\ [][NextValidate]_vars

\* Rows, rule tables and directory entries of the enrichment checks.
Entry(id, name, pi, code, resource) ==
  [CF_ATTR_ALLOCATED_PROJECT_ID |-> id, CF_ATTR_ALLOCATED_PROJECT_NAME |-> name,
   CF_ATTR_INSTITUTION_SPECIFIC_CODE |-> code, pi |-> pi, resource_name |-> resource]

ColdfrontRows ==
  {Row(p, p, "PI2", c, "") : p \in {"P1", "P2"}, c \in {"clusterA", "clusterB", "ocp-test"}}

ColdfrontRules == {<<>>, <<Rule("p2", NaN)>>}

ColdfrontEntries ==
  {Entry("P1", n, "PI1", "IC1", c) : n \in {"P1", "P1-name"}, c \in {"clusterA", "clusterB"}}

InitColdfront ==
  /\ data \in BoundedSeq(ColdfrontRows, 1, MaxRows)
  /\ nonbillable_projects \in ColdfrontRules
  /\ nonbillable_pis = <<"PI1">>
  /\ coldfront_api_data \in BoundedSeq(ColdfrontEntries, 0, MaxEntries)
  /\ allocation_data = <<>>
  /\ is_billable = <<>>
  /\ missing_pi = <<>>
  /\ input_data = data
  /\ processors = <<"ColdfrontFetchProcessor", "ValidateBillablePIsProcessor">>
  /\ completed = <<>>
  /\ error = NoError
  /\ warnings = <<>>
  /\ LoaderUnused
  /\ RerunUnused
  /\ EnvUnused
  /\ RatesUnused
  /\ MergeUnused
  /\ ExportUnused

NextColdfront == ColdfrontFetch_process \/ ValidateBillablePIs_process

SpecColdfront == InitColdfront /\ [][NextColdfront]_vars

\* ---- the resolver on rule files with ranges on entries and on clusters
cluster_entry(name, start, end) == [name |-> name, start |-> start, end |-> end]

project_entry(name, start, end, clusters) ==
  [name |-> name, start |-> start, end |-> end, clusters |-> clusters]

ResolverMonths == {"2023-06", "2023-07", "2023-08"}

ResolverClusters ==
  {cluster_entry("Cluster1", Absent, Absent),
   cluster_entry("Cluster2", "2023-07", "2023-08")}

\* ProjectA entries carry no top-level range, ProjectC entries carry one.
ResolverProjects ==
  {project_entry("ProjectA", Absent, Absent, cl) :
     cl \in BoundedSeq(ResolverClusters, 0, MaxClusters)}
  \cup
  {project_entry("ProjectC", "2023-06", "2023-07", cl) :
     cl \in BoundedSeq(ResolverClusters, 0, MaxClusters)}

InitResolver ==
  /\ projects_dict \in BoundedSeq(ResolverProjects, 0, MaxProjects)
  /\ invoice_month \in ResolverMonths
  /\ loader_cache = NotCached
  /\ timed_projects = NotReturned
  /\ resolutions = 0
  /\ obtained = <<>>
  /\ data = <<>>
  /\ nonbillable_projects = <<>>
  /\ nonbillable_pis = <<>>
  /\ coldfront_api_data = <<>>
  /\ allocation_data = <<>>
  /\ is_billable = <<>>
  /\ missing_pi = <<>>
  /\ input_data = <<>>
  /\ processors = <<>>
  /\ completed = <<>>
  /\ error = NoError
  /\ warnings = <<>>
  /\ RerunUnused
  /\ EnvUnused
  /\ RatesUnused
  /\ MergeUnused
  /\ ExportUnused

NextResolver == Loader_get_nonbillable_projects \/ Loader_get_nonbillable_timed_projects

SpecResolver == InitResolver /\ [][NextResolver]_vars

\* ---- enrichment and validation applied twice, duplicate rule keys included
RerunRows ==
  {Row(p, p, "PI2", c, "") : p \in {"P1", "P2"}, c \in {"clusterA", "ocp-test"}}

RerunRules ==
  {<<>>, <<Rule("p2", NaN)>>, <<Rule("P2", "clusterA"), Rule("p2", "clusterA")>>}

InitRerun ==
  /\ data \in BoundedSeq(RerunRows, 1, MaxRows)
  /\ nonbillable_projects \in RerunRules
  /\ nonbillable_pis = <<"PI1">>
  /\ coldfront_api_data \in BoundedSeq(ColdfrontEntries, 0, MaxEntries)
  /\ allocation_data = <<>>
  /\ is_billable = <<>>
  /\ missing_pi = <<>>
  /\ input_data = data
  /\ processors = <<"ColdfrontFetchProcessor", "ValidateBillablePIsProcessor">>
  /\ completed = <<>>
  /\ error = NoError
  /\ warnings = <<>>
  /\ LoaderUnused
  /\ RerunUnused
  /\ EnvUnused
  /\ RatesUnused
  /\ MergeUnused
  /\ ExportUnused

NextRerun == ColdfrontFetch_process \/ ValidateBillablePIs_process \/ Rerun

SpecRerun == InitRerun /\ [][NextRerun]_vars

\* ---- merge_csv on files with the header of the unit test
csv_header == <<"Cost", "Name", "Rate">>

CsvRows == {[Cost |-> 1, Name |-> "Alice", Rate |-> 25],
            [Cost |-> 2, Name |-> "Bob", Rate |-> 30]}

\* What read_csv returns for a file: the header, the rows, a fresh index.
CsvTables ==
  {[columns |-> csv_header, index |-> RangeIndex(Len(rows)), rows |-> rows] :
     rows \in BoundedSeq(CsvRows, 0, MaxRows)}

InitMerge ==
  /\ csv_files \in BoundedSeq(CsvTables, 1, MaxFiles)
  /\ merged_dataframe = NotMerged
  /\ data = <<>>
  /\ nonbillable_projects = <<>>
  /\ nonbillable_pis = <<>>
  /\ coldfront_api_data = <<>>
  /\ allocation_data = <<>>
  /\ is_billable = <<>>
  /\ missing_pi = <<>>
  /\ input_data = <<>>
  /\ processors = <<>>
  /\ completed = <<>>
  /\ error = NoError
  /\ warnings = <<>>
  /\ LoaderUnused
  /\ RerunUnused
  /\ EnvUnused
  /\ RatesUnused
  /\ ExportUnused

NextMerge == main_merge_csv

SpecMerge == InitMerge /\ [][NextMerge]_vars

\* ---- a whole run: the nine stages, then the nine invoice views
MainRows == {Row("P1", "P1", "PI2", "clusterA", ""), Row("P2", "P2", "PI2", "clusterA", "")}

MainDirectories == {<<>>, <<Entry("P1", "P1-name", "PI1", "IC1", "clusterA")>>}

InitMain ==
  /\ data \in BoundedSeq(MainRows, 1, MaxRows)
  /\ nonbillable_projects = <<Rule("p2", NaN)>>
  /\ nonbillable_pis = <<"PI1">>
  /\ coldfront_api_data \in MainDirectories
  /\ allocation_data = <<>>
  /\ is_billable = <<>>
  /\ missing_pi = <<>>
  /\ input_data = data
  /\ processors = PRELIMINARY_PROCESSORS
  /\ completed = <<>>
  /\ error = NoError
  /\ warnings = <<>>
  /\ invoices = INVOICE_LIST
  /\ exported = <<>>
  /\ uploaded = <<>>
  /\ upload_to_s3 \in BOOLEAN
  /\ LoaderUnused
  /\ RerunUnused
  /\ EnvUnused
  /\ RatesUnused
  /\ MergeUnused

NextMain ==
  \/ OtherProcessor_process
  \/ ColdfrontFetch_process
  \/ ValidateBillablePIs_process
  \/ Invoice_process_and_export

SpecMain == InitMain /\ [][NextMain]_vars

\* ---- merge_csv followed by the billability stage, on rows that carry a cost
partition_header ==
  <<"Cost", "Rate", "PROJECT_ID_FIELD", "PROJECT_FIELD", "PI_FIELD",
    "CLUSTER_NAME_FIELD", "INSTITUTION_ID_FIELD">>

PartitionRows ==
  {[Cost |-> 1, Rate |-> 25, PROJECT_ID_FIELD |-> "P1", PROJECT_FIELD |-> "P1",
    PI_FIELD |-> "PI2", CLUSTER_NAME_FIELD |-> "stack", INSTITUTION_ID_FIELD |-> ""],
   [Cost |-> 2, Rate |-> 30, PROJECT_ID_FIELD |-> "P2", PROJECT_FIELD |-> "P2",
    PI_FIELD |-> "PI2", CLUSTER_NAME_FIELD |-> "stack", INSTITUTION_ID_FIELD |-> ""]}

PartitionTables ==
  {[columns |-> partition_header, index |-> RangeIndex(Len(rows)), rows |-> rows] :
     rows \in BoundedSeq(PartitionRows, 0, MaxRows)}

PartitionRules == {<<>>, <<Rule("P1", "stack"), Rule("p1", "stack")>>}

InitPartition ==
  /\ csv_files \in BoundedSeq(PartitionTables, 1, MaxFiles)
  /\ merged_dataframe = NotMerged
  /\ data = <<>>
  /\ nonbillable_projects \in PartitionRules
  /\ nonbillable_pis = <<"PI1">>
  /\ coldfront_api_data = <<>>
  /\ allocation_data = <<>>
  /\ is_billable = <<>>
  /\ missing_pi = <<>>
  /\ input_data = <<>>
  /\ processors = <<>>
  /\ completed = <<>>
  /\ error = NoError
  /\ warnings = <<>>
  /\ LoaderUnused
  /\ RerunUnused
  /\ EnvUnused
  /\ RatesUnused
  /\ ExportUnused

NextPartition ==
  \/ main_merge_csv
  \/ main_process_merged_dataframe
  \/ ValidateBillablePIs_process

SpecPartition == InitPartition /\ [][NextPartition]_vars

\* ---- the enrichment on directory responses with malformed entries
DirectoryRows ==
  {Row("P1", "P1", "PI2", "clusterA", ""), Row("P2", "P2", "PI2", "clusterA", "")}

DirectoryEntries ==
  {Entry("P1", "P1-name", "PI1", "IC1", "clusterA"),
   Entry("P1", "P1", "PI2", Absent, "clusterA-alias"),
   Entry(Absent, "P2", "PI1", "IC1", "clusterA"),
   Entry("P2", Absent, "PI1", "IC1", "clusterA"),
   Entry("P1", "P2", Absent, "IC1", "clusterA"),
   Entry("P2", "P2", "PI1", "IC1", Absent)}

InitDirectory ==
  /\ data \in BoundedSeq(DirectoryRows, 1, MaxRows)
  /\ nonbillable_projects = <<>>
  /\ nonbillable_pis = <<"PI1">>
  /\ coldfront_api_data \in BoundedSeq(DirectoryEntries, 0, MaxEntries)
  /\ allocation_data = <<>>
  /\ is_billable = <<>>
  /\ missing_pi = <<>>
  /\ input_data = data
  /\ processors = <<"ColdfrontFetchProcessor">>
  /\ completed = <<>>
  /\ error = NoError
  /\ warnings = <<>>
  /\ LoaderUnused
  /\ RerunUnused
  /\ EnvUnused
  /\ RatesUnused
  /\ MergeUnused
  /\ ExportUnused

NextDirectory == ColdfrontFetch_process

SpecDirectory == InitDirectory /\ [][NextDirectory]_vars

\* ---- the start of main and the enrichment, with and without a coldfront file
EnvFilepaths == {None, "", "coldfront.json"}

InitEnv ==
  /\ environ \in SUBSET Range(KEYCLOAK_VARS)
  /\ coldfront_api_filepath \in EnvFilepaths
  /\ env_checked = FALSE
  /\ requests = <<>>
  /\ data \in BoundedSeq(MainRows, 1, MaxRows)
  /\ nonbillable_projects = <<Rule("p2", NaN)>>
  /\ nonbillable_pis = <<"PI1">>
  /\ coldfront_api_data \in MainDirectories
  /\ allocation_data = <<>>
  /\ is_billable = <<>>
  /\ missing_pi = <<>>
  /\ input_data = data
  /\ processors = <<"ColdfrontFetchProcessor">>
  /\ completed = <<>>
  /\ error = NoError
  /\ warnings = <<>>
  /\ LoaderUnused
  /\ RerunUnused
  /\ RatesUnused
  /\ MergeUnused
  /\ ExportUnused

NextEnv == main_validate_required_env_vars \/ main_ColdfrontFetch_process

SpecEnv == InitEnv /\ [][NextEnv]_vars

\* ---- both stages constructed with the loader's table, names in upper case
RulesProjects ==
  {project_entry("P1", Absent, Absent, <<>>),
   project_entry("P1", Absent, Absent, <<cluster_entry("clusterA", Absent, Absent),
                                         cluster_entry("clusterB", "2023-07", "2023-07")>>),
   project_entry("P2", "2023-06", "2023-07", <<>>)}

RulesRows ==
  {Row(p, p, "PI2", c, "") : p \in {"P1", "P2"}, c \in {"clusterA", "clusterB"}}

RulesDirectories ==
  {<<Entry("P1", "P1-name", "PI1", "IC1", "clusterA"),
     Entry("P2", "P2", "PI2", "IC1", "clusterA")>>}

InitRules ==
  /\ projects_dict \in BoundedSeq(RulesProjects, 0, MaxProjects)
  /\ invoice_month \in {"2023-07", "2023-08"}
  /\ loader_cache = NotCached
  /\ timed_projects = NotReturned
  /\ resolutions = 0
  /\ obtained = <<>>
  /\ data \in BoundedSeq(RulesRows, 1, MaxRows - 1)
  /\ nonbillable_projects = <<>>
  /\ nonbillable_pis = <<"PI1">>
  /\ coldfront_api_data \in RulesDirectories
  /\ allocation_data = <<>>
  /\ is_billable = <<>>
  /\ missing_pi = <<>>
  /\ input_data = data
  /\ processors = <<"ColdfrontFetchProcessor", "ValidateBillablePIsProcessor">>
  /\ completed = <<>>
  /\ error = NoError
  /\ warnings = <<>>
  /\ RerunUnused
  /\ EnvUnused
  /\ RatesUnused
  /\ MergeUnused
  /\ ExportUnused

NextRules ==
  \/ Loader_get_nonbillable_timed_projects
  \/ Processor_default_factory
  \/ constructed_ColdfrontFetch_process
  \/ constructed_ValidateBillablePIs_process

SpecRules == InitRules /\ [][NextRules]_vars

\* ---- the rate-backed getters on unset, zero, false, empty and other settings
RateTables ==
  {("New PI Credit" :> 1000) @@ ("BU Subsidy" :> 100)
     @@ ("Limit New PI Credit to MGHPCC Partners" :> flag)
     @@ ("Lenovo GPUA100SXM4 Charge" :> 1) @@ ("Lenovo GPUH100 Charge" :> 2) :
   flag \in BOOLEAN}

RateSettings ==
  [new_pi_credit_amount : {NoValue, Value(0), Value(500)},
   limit_new_pi_credit_to_partners : {NoValue, Value(FALSE), Value(TRUE)},
   bu_subsidy_amount : {NoValue, Value(0), Value(50)},
   lenovo_charge_info : {NoValue, Value(<<>>), Value(<<<<"GPUA100SXM4", 3>>>>)}]

InitRates ==
  /\ settings \in RateSettings
  /\ rates \in RateTables
  /\ returned = [new_pi_credit_amount |-> NoValue,
                 limit_new_pi_credit_to_partners |-> NoValue,
                 bu_subsidy_amount |-> NoValue,
                 lenovo_charge_info |-> NoValue]
  /\ rates_lookups = {}
  /\ data = <<>>
  /\ nonbillable_projects = <<>>
  /\ nonbillable_pis = <<>>
  /\ coldfront_api_data = <<>>
  /\ allocation_data = <<>>
  /\ is_billable = <<>>
  /\ missing_pi = <<>>
  /\ input_data = <<>>
  /\ processors = <<>>
  /\ completed = <<>>
  /\ error = NoError
  /\ warnings = <<>>
  /\ LoaderUnused
  /\ RerunUnused
  /\ EnvUnused
  /\ MergeUnused
  /\ ExportUnused

NextRates ==
  \/ Loader_get_new_pi_credit_amount
  \/ Loader_get_limit_new_pi_credit_to_partners
  \/ Loader_get_bu_subsidy_amount
  \/ Loader_get_lenovo_su_charge_info

SpecRates == InitRates /\ [][NextRates]_vars

\* ================================================================ claims
\* The billability criteria as the specification states them, per row.
PI_nonbillable(row) == \E k \in DOMAIN nonbillable_pis : nonbillable_pis[k] = row.PI_FIELD

agnostic_match(rule, row) ==
  /\ rule.NONBILLABLE_CLUSTER_NAME = NaN
  /\ lower(rule.NONBILLABLE_PROJECT_NAME) = lower(row.PROJECT_FIELD)

specific_match(rule, row) ==
  /\ rule.NONBILLABLE_CLUSTER_NAME # NaN
  /\ lower(rule.NONBILLABLE_PROJECT_NAME) = lower(row.PROJECT_FIELD)
  /\ rule.NONBILLABLE_CLUSTER_NAME = row.CLUSTER_NAME_FIELD

project_nonbillable(row) ==
  \E j \in DOMAIN nonbillable_projects :
     agnostic_match(nonbillable_projects[j], row) \/ specific_match(nonbillable_projects[j], row)

cluster_nonbillable(row) == row.CLUSTER_NAME_FIELD \in {"ocp-test", "barcelona"}

ValidateDone == \E k \in DOMAIN completed : completed[k] = "ValidateBillablePIsProcessor"

ColdfrontDone == \E k \in DOMAIN completed : completed[k] = "ColdfrontFetchProcessor"

ColdfrontFailed == error.type = "ValueError"

\* Two rules of the table share a join key once their names are lowercased.
DuplicateRuleKeys ==
  \E j, k \in DOMAIN nonbillable_projects :
     /\ j # k
     /\ lower(nonbillable_projects[j].NONBILLABLE_PROJECT_NAME)
          = lower(nonbillable_projects[k].NONBILLABLE_PROJECT_NAME)
     /\ nonbillable_projects[j].NONBILLABLE_CLUSTER_NAME
          = nonbillable_projects[k].NONBILLABLE_CLUSTER_NAME

\* The row's (project id, cluster) key is the key of a well-formed entry of
\* the directory response.
registered(row) ==
  \E k \in DOMAIN coldfront_api_data :
     LET e == coldfront_api_data[k]
     IN /\ e.CF_ATTR_ALLOCATED_PROJECT_ID # Absent
        /\ e.CF_ATTR_ALLOCATED_PROJECT_NAME # Absent
        /\ e.pi # Absent
        /\ e.resource_name # Absent
        /\ e.CF_ATTR_ALLOCATED_PROJECT_ID = row.PROJECT_ID_FIELD
        /\ CLUSTER_NAME_MAP_get(e.resource_name) = row.CLUSTER_NAME_FIELD

billable_by_rules(row) == ~project_nonbillable(row) /\ ~cluster_nonbillable(row)

\* C1: after the validate-billable-pi stage, every row's is_billable is true
\* if and only if its PI is not in the nonbillable-PI list, its project
\* matches no nonbillable rule and its cluster is not a reserved cluster.
C1_IsBillableIffThreeCriteria ==
  ValidateDone =>
    \A i \in DOMAIN data :
       is_billable[i] <=> /\ ~PI_nonbillable(data[i])
                          /\ ~project_nonbillable(data[i])
                          /\ ~cluster_nonbillable(data[i])

\* C2: when the enrichment stage completes without error, every row that is
\* billable under the project/cluster rules has its (project id, cluster) key
\* among the well-formed directory entries.
C2_NoBillableRowUnregistered ==
  ColdfrontDone =>
    \A i \in DOMAIN data : billable_by_rules(data[i]) => registered(data[i])

\* C3: when the enrichment stage fails, the list in its error message is
\* exactly the missing (project, cluster) pairs, in ascending order.
C3_ErrorListsMissingPairsSorted ==
  ColdfrontFailed =>
    LET missing == {<<data[i].PROJECT_FIELD, data[i].CLUSTER_NAME_FIELD>> :
                      i \in {j \in DOMAIN data :
                               billable_by_rules(data[j]) /\ ~registered(data[j])}}
        pair_lt(a, b) == \/ str_lt(a[1], b[1])
                         \/ a[1] = b[1] /\ str_lt(a[2], b[2])
    IN /\ {error.items[k] : k \in DOMAIN error.items} = missing
       /\ Len(error.items) = Cardinality(missing)
       /\ \A k \in 1..(Len(error.items) - 1) : pair_lt(error.items[k], error.items[k + 1])

\* C4: the enrichment stage raises its fatal error if and only if, after
\* enrichment, some row is billable under the project/cluster rules and has
\* no matching directory entry; rows matched by a nonbillable rule or on a
\* reserved cluster never cause the failure.
C4_FailsIffBillableRowMissing ==
  (ColdfrontDone \/ ColdfrontFailed) =>
    (ColdfrontFailed <=>
       \E i \in DOMAIN data : billable_by_rules(data[i]) /\ ~registered(data[i]))

\* C5: right after a successful enrichment stage, every row whose
\* (project id, cluster) key is the key of an allocation record carries that
\* record's project name, PI and institution code; every other row, and the
\* project-id and cluster columns of all rows, are as they entered the stage.
C5_EnrichmentOverwritesMatchedRowsOnly ==
  (completed = <<"ColdfrontFetchProcessor">>) =>
    /\ Len(data) = Len(input_data)
    /\ \A i \in DOMAIN data :
         /\ data[i].PROJECT_ID_FIELD = input_data[i].PROJECT_ID_FIELD
         /\ data[i].CLUSTER_NAME_FIELD = input_data[i].CLUSTER_NAME_FIELD
         /\ \A k \in DOMAIN allocation_data :
              (allocation_data[k].key
                 = <<input_data[i].PROJECT_ID_FIELD, input_data[i].CLUSTER_NAME_FIELD>>)
              => /\ data[i].PROJECT_FIELD = allocation_data[k].value.PROJECT_FIELD
                 /\ data[i].PI_FIELD = allocation_data[k].value.PI_FIELD
                 /\ data[i].INSTITUTION_ID_FIELD = allocation_data[k].value.INSTITUTION_ID_FIELD
         /\ ~registered(input_data[i]) => data[i] = input_data[i]

\* C5 witness: a successful stage that overwrote a matched row and left
\* an unmatched row of the same project alone.
C5_Witness ==
  /\ completed = <<"ColdfrontFetchProcessor">>
  /\ \E i, j \in DOMAIN data :
       /\ registered(input_data[i])
       /\ data[i] # input_data[i]
       /\ data[i].PI_FIELD = "PI1"
       /\ ~registered(input_data[j])
       /\ input_data[j].PROJECT_ID_FIELD = input_data[i].PROJECT_ID_FIELD

\* C6: a row whose PI is in the nonbillable-PI list is not billable after the
\* validation stage, whatever its project, its cluster, the rules and the
\* other rows.
C6_NonbillablePINeverBillable ==
  ValidateDone =>
    \A i \in DOMAIN data : PI_nonbillable(data[i]) => ~is_billable[i]

\* C6 witness: the stage ran on a rule table with duplicate keys and a row of
\* a nonbillable PI that no project or cluster criterion excludes.
C6_Witness ==
  /\ ValidateDone
  /\ DuplicateRuleKeys
  /\ \E i \in DOMAIN data :
       /\ PI_nonbillable(data[i])
       /\ billable_by_rules(data[i])
       /\ ~is_billable[i]

\* C7: a row whose project equals, ignoring case, the name of a
\* cluster-agnostic rule is not billable after the validation stage, on every
\* cluster and whatever other rows and rules are present.
C7_AgnosticRuleExcludesOnEveryCluster ==
  ValidateDone =>
    \A i \in DOMAIN data :
       (\E j \in DOMAIN nonbillable_projects : agnostic_match(nonbillable_projects[j], data[i]))
       => ~is_billable[i]

\* C8: a row on a reserved nonbillable cluster (ocp-test, barcelona) is not
\* billable after the validation stage.
C8_ReservedClusterNeverBillable ==
  ValidateDone =>
    \A i \in DOMAIN data : cluster_nonbillable(data[i]) => ~is_billable[i]

\* C9: a cluster-specific rule excludes a row exactly when the lowercased
\* names are equal and the cluster names are equal character for character:
\* a row that no other criterion excludes is not billable if and only if
\* some cluster-specific rule matches it so.
C9_SpecificRuleMatchesNameAndExactCluster ==
  ValidateDone =>
    \A i \in DOMAIN data :
       (/\ ~PI_nonbillable(data[i])
        /\ ~cluster_nonbillable(data[i])
        /\ ~\E j \in DOMAIN nonbillable_projects : agnostic_match(nonbillable_projects[j], data[i]))
       => (~is_billable[i] <=>
             \E j \in DOMAIN nonbillable_projects : specific_match(nonbillable_projects[j], data[i]))

\* C10: after the validation stage, every row's missing_pi is true if and
\* only if its pi_name is null or blank.
C10_MissingPIIffNullOrBlank ==
  ValidateDone =>
    \A i \in DOMAIN data :
       missing_pi[i] <=> (data[i].PI_FIELD = NaN \/ data[i].PI_FIELD = "")

\* C11: the validation stage logs one warning for every row whose missing_pi
\* and is_billable are both true, in row order, and none for any other row;
\* the warnings are not fatal: the stage completes without error and sets
\* both columns on every row.
C11_OneWarningPerBillableRowMissingPI ==
  ValidateDone =>
    LET flagged == {i \in DOMAIN data : missing_pi[i] /\ is_billable[i]}
    IN /\ error = NoError
       /\ Len(is_billable) = Len(data)
       /\ Len(missing_pi) = Len(data)
       /\ Len(warnings) = Cardinality(flagged)
       /\ \E f \in [DOMAIN warnings -> flagged] :
            /\ \A k \in DOMAIN warnings : warnings[k] = data[f[k]].PROJECT_FIELD
            /\ \A k \in 1..(Len(warnings) - 1) : f[k] < f[k + 1]

\* C11 witness: the stage warned about a billable row with a null PI and
\* stayed silent about a nonbillable row with a null PI.
C11_Witness ==
  /\ ValidateDone
  /\ warnings # <<>>
  /\ \E i \in DOMAIN data : missing_pi[i] /\ is_billable[i]
  /\ \E i \in DOMAIN data : missing_pi[i] /\ ~is_billable[i]

\* What entry k of the rule file contributed to the resolved table: the rows
\* by which the table of the first k entries extends the table of the first k - 1.
contribution(k) ==
  LET before == Len(get_nonbillable_projects(SubSeq(projects_dict, 1, k - 1), invoice_month))
      upto == Len(get_nonbillable_projects(SubSeq(projects_dict, 1, k), invoice_month))
  IN SubSeq(loader_cache.value, before + 1, upto)

has_range(timed_object) == timed_object.start # Absent

\* The month lies in [start, end], both bounds included.
month_within(timed_object) ==
  /\ str_rank(timed_object.start) <= str_rank(invoice_month)
  /\ str_rank(invoice_month) <= str_rank(timed_object.end)

\* C12: an entry with a top-level start/end contributes nothing when the
\* invoice month is outside [start, end] (bounds inclusive); in range it
\* contributes one tuple per listed cluster with is_time_limited true, or the
\* single tuple (name, null, true) when it lists no clusters.
C12_TopLevelRangeGatesTheEntry ==
  loader_cache.cached =>
    \A k \in DOMAIN projects_dict :
      LET project == projects_dict[k]
      IN has_range(project) =>
           IF ~month_within(project) THEN contribution(k) = <<>>
           ELSE IF project.clusters = <<>>
                  THEN contribution(k) = <<project_tuple(project.name, NaN, TRUE)>>
                  ELSE /\ Len(contribution(k)) = Len(project.clusters)
                       /\ \A j \in DOMAIN project.clusters :
                            contribution(k)[j] =
                              project_tuple(project.name, project.clusters[j].name, TRUE)

\* C12 witness: resolved at the month that is the end of a top-level range,
\* with one ranged entry listing clusters, one ranged entry listing none.
C12_Witness ==
  /\ loader_cache.cached
  /\ \E k \in DOMAIN projects_dict :
       /\ has_range(projects_dict[k])
       /\ invoice_month = projects_dict[k].end
       /\ Len(contribution(k)) = 2
  /\ \E k \in DOMAIN projects_dict :
       /\ has_range(projects_dict[k])
       /\ projects_dict[k].clusters = <<>>
       /\ contribution(k) # <<>>

\* C13: an entry without a top-level range is handled per cluster: a cluster
\* with its own range yields (name, cluster, true) only when the month is in
\* that range and nothing otherwise, a cluster without a range always yields
\* (name, cluster, false), in cluster-list order; an entry with neither a
\* range nor clusters yields exactly (name, null, false).
C13_UnrangedEntryIsResolvedPerCluster ==
  loader_cache.cached =>
    \A k \in DOMAIN projects_dict :
      LET project == projects_dict[k]
          kept == {j \in DOMAIN project.clusters :
                     has_range(project.clusters[j]) => month_within(project.clusters[j])}
      IN ~has_range(project) =>
           IF project.clusters = <<>>
             THEN contribution(k) = <<project_tuple(project.name, NaN, FALSE)>>
             ELSE /\ Len(contribution(k)) = Cardinality(kept)
                  /\ \E f \in [DOMAIN contribution(k) -> kept] :
                       /\ \A i \in 1..(Len(contribution(k)) - 1) : f[i] < f[i + 1]
                       /\ \A i \in DOMAIN contribution(k) :
                            contribution(k)[i] =
                              project_tuple(project.name, project.clusters[f[i]].name,
                                            has_range(project.clusters[f[i]]))

\* C13 witness: resolved with an unranged entry of which one cluster is out
\* of its own range and one has no range, and an entry with neither.
C13_Witness ==
  /\ loader_cache.cached
  /\ \E k \in DOMAIN projects_dict :
       /\ ~has_range(projects_dict[k])
       /\ \E j \in DOMAIN projects_dict[k].clusters :
            /\ has_range(projects_dict[k].clusters[j])
            /\ ~month_within(projects_dict[k].clusters[j])
       /\ \E i \in DOMAIN contribution(k) : ~contribution(k)[i].NONBILLABLE_IS_TIMED
  /\ \E k \in DOMAIN projects_dict :
       /\ ~has_range(projects_dict[k])
       /\ projects_dict[k].clusters = <<>>
       /\ contribution(k) = <<project_tuple(projects_dict[k].name, NaN, FALSE)>>

\* The clusters of an entry that a resolved row names.
clusters_named(project, row) ==
  {j \in DOMAIN project.clusters :
     project.clusters[j].name = row.NONBILLABLE_CLUSTER_NAME}

\* C14 as stated: for every emitted tuple, every start/end range declared for
\* its project entry or for its cluster inside the entry contains the month.
C14_EveryDeclaredRangeContainsMonth ==
  loader_cache.cached =>
    \A k \in DOMAIN projects_dict :
      \A i \in DOMAIN contribution(k) :
        /\ has_range(projects_dict[k]) => month_within(projects_dict[k])
        /\ \A j \in clusters_named(projects_dict[k], contribution(k)[i]) :
             has_range(projects_dict[k].clusters[j]) =>
               month_within(projects_dict[k].clusters[j])

\* C14 amended: for every emitted tuple the range that governs it contains
\* the month: the entry's top-level range when the entry declares one (the
\* ranges of its clusters are then not consulted), and otherwise the range
\* declared for the tuple's cluster, if any.
C14_GoverningRangeContainsMonth ==
  loader_cache.cached =>
    \A k \in DOMAIN projects_dict :
      \A i \in DOMAIN contribution(k) :
        IF has_range(projects_dict[k])
          THEN month_within(projects_dict[k])
          ELSE \A j \in clusters_named(projects_dict[k], contribution(k)[i]) :
                 has_range(projects_dict[k].clusters[j]) =>
                   month_within(projects_dict[k].clusters[j])

\* C14 witness: a tuple emitted under a top-level range that contains the
\* month for a cluster whose own range does not, next to a tuple emitted
\* under a cluster's own range.
C14_Witness ==
  /\ loader_cache.cached
  /\ \E k \in DOMAIN projects_dict :
       /\ has_range(projects_dict[k])
       /\ \E i \in DOMAIN contribution(k) :
            \E j \in clusters_named(projects_dict[k], contribution(k)[i]) :
              /\ has_range(projects_dict[k].clusters[j])
              /\ ~month_within(projects_dict[k].clusters[j])

\* get_nonbillable_timed_projects has been called and has returned or raised.
TimedCallEnded == timed_projects.returned \/ error.type = "KeyError"

\* C15: get_nonbillable_timed_projects returns exactly the (project, cluster)
\* pairs of the resolved tuples whose is_time_limited flag is true, in the
\* order of the resolved table (rule-file order, then cluster-list order),
\* and no pair of a non-timed tuple.
C15_TimedProjectsAreTheTimedTuples ==
  TimedCallEnded =>
    LET table == loader_cache.value
        timed == {i \in DOMAIN table : table[i].NONBILLABLE_IS_TIMED}
        pairs == timed_projects.value
    IN /\ timed_projects.returned
       /\ Len(pairs) = Cardinality(timed)
       /\ \E f \in [DOMAIN pairs -> timed] :
            /\ \A i \in 1..(Len(pairs) - 1) : f[i] < f[i + 1]
            /\ \A i \in DOMAIN pairs :
                 pairs[i] = <<table[f[i]].NONBILLABLE_PROJECT_NAME,
                              table[f[i]].NONBILLABLE_CLUSTER_NAME>>

\* C16: the row count is invariant across the preliminary stages: whatever
\* stages have run, in whatever sequence, the dataset has the rows it entered
\* the last stage with, in the same order, and the columns a stage sets have
\* one value per row, for every rule table (duplicate rule keys included) and
\* every directory response.
C16_RowCountInvariantAcrossStages ==
  /\ Len(data) = Len(input_data)
  /\ \A i \in DOMAIN data :
       /\ data[i].PROJECT_ID_FIELD = input_data[i].PROJECT_ID_FIELD
       /\ data[i].CLUSTER_NAME_FIELD = input_data[i].CLUSTER_NAME_FIELD
  /\ is_billable # <<>> => Len(is_billable) = Len(data)
  /\ missing_pi # <<>> => Len(missing_pi) = Len(data)
  /\ runs = 2 => Len(data) = Len(first_run.data)

\* C16 witness: enrichment and validation have both run, twice, on a dataset
\* of which a row matches a rule key that the rule table holds twice.
C16_Witness ==
  /\ runs = 2
  /\ completed = <<"ColdfrontFetchProcessor", "ValidateBillablePIsProcessor">>
  /\ DuplicateRuleKeys
  /\ \E i \in DOMAIN data : \E k \in DOMAIN nonbillable_projects :
       specific_match(nonbillable_projects[k], data[i])
  /\ Len(data) > 1

\* C20: enrichment then validation applied a second time to their own
\* output, with the same directory, PI list and rules, leave a dataset
\* identical to the first application's, and the second application fails
\* if and only if the first did (with the same error).
C20_SecondApplicationChangesNothing ==
  (runs = 2 /\ RunEnded) =>
    /\ data = first_run.data
    /\ is_billable = first_run.is_billable
    /\ missing_pi = first_run.missing_pi
    /\ error = first_run.error

\* C20 witness: a second application has run to its end on a dataset of
\* which the first application overwrote a row from the directory and set
\* the billability of every row.
C20_Witness ==
  /\ runs = 2
  /\ completed = <<"ColdfrontFetchProcessor", "ValidateBillablePIsProcessor">>
  /\ \E i \in DOMAIN data : data[i].PROJECT_FIELD = "P1-name" /\ data[i].PI_FIELD = "PI1"
  /\ Len(first_run.is_billable) = Len(data)

\* The number of rows of the first k input tables.
RECURSIVE rows_before(_)
rows_before(k) == IF k = 0 THEN 0 ELSE rows_before(k - 1) + Len(csv_files[k].rows)

\* C17: merge_csv over N input tables returns one table whose row count is
\* the sum of the inputs' row counts, whose rows are the inputs' rows in file
\* order and, within a file, in row order, under the fresh index 0..n-1, and
\* whose column list is the inputs' common header: no row is dropped,
\* duplicated or reordered.
C17_MergeConcatenatesInFileOrder ==
  merged_dataframe # NotMerged =>
    /\ Len(merged_dataframe.rows) = rows_before(Len(csv_files))
    /\ merged_dataframe.index =
         [i \in 1..rows_before(Len(csv_files)) |-> i - 1]
    /\ \A k \in DOMAIN csv_files :
         /\ merged_dataframe.columns = csv_files[k].columns
         /\ \A j \in DOMAIN csv_files[k].rows :
              LET merged_row == merged_dataframe.rows[rows_before(k - 1) + j]
              IN /\ merged_row.Name = csv_files[k].rows[j].Name
                 /\ merged_row.Cost.unscaled = 100 * csv_files[k].rows[j].Cost

\* C17 witness: two files were merged, the first with rows the second repeats.
C17_Witness ==
  /\ merged_dataframe # NotMerged
  /\ Len(csv_files) > 1
  /\ Len(csv_files[1].rows) > 1
  /\ csv_files[2].rows # <<>>
  /\ csv_files[2].rows[1] = csv_files[1].rows[2]

\* The nine preliminary stages in the order the specification declares:
\* cluster-name validation, allocation enrichment, PI alias, institution,
\* Lenovo, billability validation, new-PI credit, subsidy, prepayment.
DeclaredStageOrder ==
  <<"ValidateClusterNameProcessor", "ColdfrontFetchProcessor",
    "ValidatePIAliasProcessor", "AddInstitutionProcessor", "LenovoProcessor",
    "ValidateBillablePIsProcessor", "NewPICreditProcessor", "BUSubsidyProcessor",
    "PrepaymentProcessor">>

\* A stage has been entered by this step: it completed or it raised.
StageRan == completed' # completed \/ (error = NoError /\ error' # NoError /\ processors # <<>>)

\* C18: the nine preliminary stages run strictly in the declared order, each
\* exactly once and on the dataset the previous stage left; none is skipped;
\* once a stage has raised no later stage runs and no invoice view is
\* processed or exported; views are processed only after the ninth stage.
C18_StagesRunInDeclaredOrder ==
  [][/\ completed' = completed
        \/ /\ Len(completed) < Len(DeclaredStageOrder)
           /\ completed' = Append(completed, DeclaredStageOrder[Len(completed) + 1])
     /\ StageRan => input_data' = data
     /\ (error # NoError) =>
          /\ completed' = completed
          /\ exported' = exported
          /\ uploaded' = uploaded
          /\ invoices' = invoices
     /\ (exported' # exported \/ invoices' # invoices) => completed = DeclaredStageOrder
    ]_vars

\* C18 witness: all nine stages have completed and the views are under way.
C18_Witness ==
  /\ completed = DeclaredStageOrder
  /\ Len(exported) > 1
  /\ is_billable # <<>>

\* The run is over: it was aborted, or the last view has been exported.
MainEnded == error # NoError \/ (processors = <<>> /\ invoices = <<>>)

\* C19: every run produces all nine finalized invoice views or none: no end
\* state, successful or aborted, has at least one but fewer than nine views
\* exported.
C19_AllNineViewsOrNone ==
  MainEnded => Len(exported) \in {0, Len(INVOICE_LIST)}

\* The sum of the cost, in hundredths, over the rows of a selection.
RECURSIVE cost_sum(_, _)
cost_sum(rows, selection) ==
  IF selection = {} THEN 0
  ELSE LET i == CHOOSE j \in selection : TRUE
       IN rows[i].Cost.unscaled + cost_sum(rows, selection \ {i})

\* The sum of the cost, in units, over the rows of the first k input tables.
RECURSIVE input_cost(_)
input_cost(k) ==
  IF k = 0 THEN 0
  ELSE input_cost(k - 1)
       + cost_sum([j \in DOMAIN csv_files[k].rows |->
                     [Cost |-> [unscaled |-> csv_files[k].rows[j].Cost]]],
                  DOMAIN csv_files[k].rows)

\* C21: after the validation stage every row of the merged input carries
\* exactly one definite is_billable value, so the billable and the
\* nonbillable rows are disjoint and together are all rows of the merged
\* input, and the cost of the two partitions adds up to the cost of the
\* merged input.
C21_PartitionConservesCost ==
  ValidateDone =>
    LET billable == {i \in DOMAIN data : is_billable[i] = TRUE}
        nonbillable == {i \in DOMAIN data : is_billable[i] = FALSE}
    IN /\ DOMAIN is_billable = DOMAIN data
       /\ \A i \in DOMAIN data : is_billable[i] \in BOOLEAN
       /\ billable \cap nonbillable = {}
       /\ billable \cup nonbillable = DOMAIN merged_dataframe.rows
       /\ Len(data) = rows_before(Len(csv_files))
       /\ cost_sum(data, billable) + cost_sum(data, nonbillable)
            = cost_sum(merged_dataframe.rows, DOMAIN merged_dataframe.rows)
       /\ cost_sum(data, billable) + cost_sum(data, nonbillable)
            = 100 * input_cost(Len(csv_files))

\* C21 witness: two files were merged and validated, with billable and
\* nonbillable rows and a rule key held twice that a row matches.
C21_Witness ==
  /\ ValidateDone
  /\ Len(csv_files) > 1
  /\ DuplicateRuleKeys
  /\ \E i \in DOMAIN data : is_billable[i]
  /\ \E i \in DOMAIN data : ~is_billable[i]
  /\ cost_sum(data, DOMAIN data) > 300

\* The enrichment stage has run: it completed or it raised.
ColdfrontRan == ColdfrontDone \/ error # NoError

\* A directory entry that has its four required fields.
well_formed(entry) ==
  /\ entry.CF_ATTR_ALLOCATED_PROJECT_ID # Absent
  /\ entry.CF_ATTR_ALLOCATED_PROJECT_NAME # Absent
  /\ entry.pi # Absent
  /\ entry.resource_name # Absent

\* The cluster alias table of the model's universe.
alias_of(resource_name) ==
  IF resource_name = "clusterA-alias" THEN "clusterA" ELSE resource_name

entry_key(entry) == <<entry.CF_ATTR_ALLOCATED_PROJECT_ID, alias_of(entry.resource_name)>>

entry_value(entry) ==
  [PROJECT_FIELD |-> entry.CF_ATTR_ALLOCATED_PROJECT_NAME,
   PI_FIELD |-> entry.pi,
   INSTITUTION_ID_FIELD |->
     IF entry.CF_ATTR_INSTITUTION_SPECIFIC_CODE = Absent
       THEN "N/A" ELSE entry.CF_ATTR_INSTITUTION_SPECIFIC_CODE]

\* The last well-formed entry of the response with the key, 0 if there is none.
last_well_formed(key) ==
  LET hits == {k \in DOMAIN coldfront_api_data :
                 /\ well_formed(coldfront_api_data[k])
                 /\ entry_key(coldfront_api_data[k]) = key}
  IN IF hits = {} THEN 0 ELSE CHOOSE k \in hits : \A j \in hits : j <= k

\* C22: an entry missing a required field (project id, project name, PI,
\* resource name) is skipped: the stage does not abort on it and the rows are
\* enriched as the well-formed entries alone say; an entry missing only the
\* institution code is applied with the code "N/A"; the key of an entry is
\* its project id with its resource name mapped through the alias table.
C22_MalformedEntriesAreSkipped ==
  ColdfrontRan =>
    /\ error.type # "KeyError"
    /\ \A k \in DOMAIN coldfront_api_data :
         well_formed(coldfront_api_data[k]) =>
           \E i \in DOMAIN allocation_data :
             allocation_data[i].key = entry_key(coldfront_api_data[k])
    /\ \A i \in DOMAIN allocation_data :
         /\ last_well_formed(allocation_data[i].key) # 0
         /\ allocation_data[i].value =
              entry_value(coldfront_api_data[last_well_formed(allocation_data[i].key)])
    /\ \A i \in DOMAIN data :
         LET k == last_well_formed(<<input_data[i].PROJECT_ID_FIELD,
                                     input_data[i].CLUSTER_NAME_FIELD>>)
         IN IF k = 0 THEN data[i] = input_data[i]
            ELSE /\ data[i].PROJECT_FIELD = entry_value(coldfront_api_data[k]).PROJECT_FIELD
                 /\ data[i].PI_FIELD = entry_value(coldfront_api_data[k]).PI_FIELD
                 /\ data[i].INSTITUTION_ID_FIELD =
                      entry_value(coldfront_api_data[k]).INSTITUTION_ID_FIELD

\* C22 witness: the stage completed on a response that holds an entry
\* without a required field and an entry without institution code under an
\* alias of the cluster, and a row took the code "N/A".
C22_Witness ==
  /\ ColdfrontDone
  /\ \E k \in DOMAIN coldfront_api_data : ~well_formed(coldfront_api_data[k])
  /\ \E k \in DOMAIN coldfront_api_data :
       /\ coldfront_api_data[k].resource_name = "clusterA-alias"
       /\ coldfront_api_data[k].CF_ATTR_INSTITUTION_SPECIFIC_CODE = Absent
  /\ \E i \in DOMAIN data : data[i].INSTITUTION_ID_FIELD = "N/A"

\* A coldfront data file is configured.
file_configured == coldfront_api_filepath # None /\ coldfront_api_filepath # ""

\* The run was terminated by validate_required_env_vars.
exited_by_validation ==
  /\ error.type = "SystemExit"
  /\ error.items[1] \in {"KEYCLOAK_CLIENT_ID", "KEYCLOAK_CLIENT_SECRET"}

\* C23: validate_required_env_vars terminates the run if and only if one of
\* the listed variables is absent from the environment; main lists
\* KEYCLOAK_CLIENT_ID and KEYCLOAK_CLIENT_SECRET only when no coldfront data
\* file is configured; with a file configured the enrichment reads the
\* directory from the file and neither authenticates nor calls the API.
C23_EnvVarsRequiredOnlyWithoutFile ==
  /\ (env_checked \/ exited_by_validation) =>
       (exited_by_validation <=>
          /\ ~file_configured
          /\ \E v \in {"KEYCLOAK_CLIENT_ID", "KEYCLOAK_CLIENT_SECRET"} : v \notin environ)
  /\ \A list \in BoundedSeq({"KEYCLOAK_CLIENT_ID", "KEYCLOAK_CLIENT_SECRET"}, 0, 2) :
       (validate_required_env_vars(list, environ) # <<>>)
         <=> (\E k \in DOMAIN list : list[k] \notin environ)
  /\ file_configured =>
       /\ \A k \in DOMAIN requests : requests[k] = "open coldfront_data_filepath"
       /\ ColdfrontRan => requests = <<"open coldfront_data_filepath">>
  /\ (~file_configured /\ requests # <<>>) =>
       /\ requests[1] = "POST keycloak token"
       /\ {"KEYCLOAK_CLIENT_ID", "KEYCLOAK_CLIENT_SECRET"} \subseteq environ

\* C23 witness: with a file configured and neither variable set, main went
\* on and the enrichment completed from the file.
C23_Witness ==
  /\ file_configured
  /\ environ = {}
  /\ env_checked
  /\ ColdfrontDone
  /\ requests = <<"open coldfront_data_filepath">>

\* The rule is the first of the table with its (lowercased name, cluster) key.
first_of_key(rules, j) ==
  \A k \in 1..(j - 1) :
     \/ lower(rules[k].NONBILLABLE_PROJECT_NAME) # lower(rules[j].NONBILLABLE_PROJECT_NAME)
     \/ rules[k].NONBILLABLE_CLUSTER_NAME # rules[j].NONBILLABLE_CLUSTER_NAME

RECURSIVE distinct_rules(_, _)
distinct_rules(rules, j) ==
  IF j > Len(rules) THEN <<>>
  ELSE (IF first_of_key(rules, j) THEN <<rules[j]>> ELSE <<>>) \o distinct_rules(rules, j + 1)

\* C24: the billability of a row depends only on its own PI, project name and
\* cluster and on the set of rules: it is what the stage gives the row taken
\* alone under the table with each (lowercased name, cluster) key listed
\* once, whatever the other rows, the row order and the duplicate or
\* case-variant entries of the table.
C24_BillabilityDependsOnOwnRowAndRuleSet ==
  ValidateDone =>
    \A i \in DOMAIN data :
       is_billable[i] = _get_billables(<<data[i]>>, nonbillable_pis,
                                        distinct_rules(nonbillable_projects, 1))[1]

\* C25: the resolved rule table is one unmodified value for the whole run:
\* the rule file is resolved at most once, the enrichment and the billability
\* stage are both given the cached table, which stays the table a fresh
\* resolution gives (names in their original case), and the evaluation of
\* find_billable_projects leaves the dataset's project names as they were.
C25_RuleTableIsOneUnmodifiedValue ==
  LET resolved == get_nonbillable_projects(projects_dict, invoice_month)
  IN /\ resolutions <= 1
     /\ loader_cache.cached => loader_cache.value = resolved
     /\ \A k \in DOMAIN obtained : obtained[k].value = resolved
     /\ obtained # <<>> => nonbillable_projects = resolved
     /\ (completed = <<"ColdfrontFetchProcessor">> /\ Len(obtained) = 1) =>
          data = _apply_allocation_data(input_data, allocation_data)
     /\ ValidateDone =>
          \A i \in DOMAIN data : data[i].PROJECT_FIELD = input_data[i].PROJECT_FIELD

\* C25 witness: both stages ran on the cached table, which holds a name in
\* upper case, over a dataset that holds one too.
C25_Witness ==
  /\ completed = <<"ColdfrontFetchProcessor", "ValidateBillablePIsProcessor">>
  /\ resolutions = 1
  /\ Len(obtained) = 2
  /\ \E j \in DOMAIN nonbillable_projects :
        nonbillable_projects[j].NONBILLABLE_PROJECT_NAME = "P1"
  /\ \E i \in DOMAIN data : data[i].PROJECT_FIELD = "P2"

\* The Lenovo charge mapping the rate table gives.
lenovo_rates == <<<<"GPUA100SXM4", rates["Lenovo GPUA100SXM4 Charge"]>>,
                  <<"GPUH100", rates["Lenovo GPUH100 Charge"]>>>>

\* The getter returned the configured value without a lookup of the names
\* when one is configured, and the rate table's value when none is.
configured_wins(configured, got, names, rate_value) ==
  got # <<>> =>
    IF configured # <<>>
      THEN got = configured /\ names \cap rates_lookups = {}
      ELSE got = <<rate_value>>

\* C26: for the new-PI credit amount, the limit-to-partners flag, the BU
\* subsidy amount and the Lenovo charge info, a configured value is the value
\* the getter returns and the rate table is consulted only when the setting
\* is None; a configured 0, False or empty mapping included.
C26_ConfiguredValueIsReturned ==
  /\ configured_wins(settings.new_pi_credit_amount, returned.new_pi_credit_amount,
                     {"New PI Credit"}, rates["New PI Credit"])
  /\ configured_wins(settings.limit_new_pi_credit_to_partners,
                     returned.limit_new_pi_credit_to_partners,
                     {"Limit New PI Credit to MGHPCC Partners"},
                     rates["Limit New PI Credit to MGHPCC Partners"])
  /\ configured_wins(settings.bu_subsidy_amount, returned.bu_subsidy_amount,
                     {"BU Subsidy"}, rates["BU Subsidy"])
  /\ configured_wins(settings.lenovo_charge_info, returned.lenovo_charge_info,
                     {"Lenovo GPUA100SXM4 Charge", "Lenovo GPUH100 Charge"},
                     lenovo_rates)

====
